---- MODULE Spec2Model ----
(***************************************************************************)
(* A model of the product catalog package (src/product/productcatalog.go): *)
(* Product, Inventory, MemoryStorage, MockDatabaseStorage, ExternalAPI and *)
(* FetchProductsConcurrently.  Each component has its own specification;   *)
(* the variables of the other components stay at their initial values.     *)
(***************************************************************************)
EXTENDS Integers, Sequences, FiniteSets, TLC

VARIABLES
    p,        \* the Product the Product methods act on (receiver *Product)
    pcall,    \* the last Product method call (op, arg, err, the product before it)
              \* and a summary of the call before it
    inv,      \* Inventory.Products: a map from ID to Product
    icall,    \* the last Inventory method call, and a summary of the one before it
    ids,      \* FetchProductsConcurrently: the ids argument
    fpc,      \* FetchProductsConcurrently: where the calling goroutine is
    fi,       \* the number of loop iterations done (goroutines started)
    wg,       \* the WaitGroup counter
    upc,      \* upc[i]: where the goroutine of the i-th id is
    ulocal,   \* ulocal[i]: its locals product, err (what FetchProductDetails returned)
    results,  \* the buffer of the results channel
    errorsCh, \* the buffer of the errors channel
    closed,   \* the set of channels closed so far
    products, \* the products slice, returned at the end
    mem,      \* MemoryStorage.Products
    mcall,    \* the last MemoryStorage call, and the call before it
    store,    \* MockDatabaseStorage.store
    dcall,    \* the last MockDatabaseStorage call, and the call before it
    \* a storage shared by concurrent callers
    kind,     \* which storage it is: "MemoryStorage" or "MockDatabaseStorage"
    smap,     \* its map (Products / store)
    mutex,    \* the embedded sync.Mutex: 0 when free, else the caller that locked it
    cpc,      \* cpc[c]: where caller c is in its call
    creq,     \* creq[c]: the call caller c is making (op, id, product)
    cres,     \* cres[c]: what the call returns, once computed
    gmap,     \* the map the same calls give when run one after the other, in lock order
    expect,   \* expect[c]: what caller c's call returns in that sequential run
    prevdel,  \* the last critical section, if it was a Delete that removed a key
    race,     \* two overlapping Deletes of one key that ran back to back
    \* the process-wide Inventory of the in-memory HTTP server, under concurrent requests
    ginv,     \* inventory.Products
    hpc,      \* hpc[h]: where request handler h is
    hreq,     \* hreq[h]: the product of its createProduct request
    hres,     \* hres[h]: what AddProduct returned to it, and what its check saw
    \* Restock applied along three paths
    rs,
    \* the persistent HTTP server
    pinv,     \* inventory.Products
    db,       \* the products table behind db
    events,   \* the messages written to the product-events topic
    hcall,    \* the last request handled
    \* a pointer returned by a lookup
    lkind,    \* the container looked up in
    lptr,     \* the *Product the last lookup returned
    llocal,   \* the local variable p of that lookup, which outlives it when &p escapes
    lcall,     \* the last lookup or use of the pointer
    \* one container and the operations that write it, one after the other
    kkind,    \* whose container: Inventory, a storage, or the in-memory HTTP server
    kmap,     \* the container's map
    kcall     \* the last operation on it, with the entry it found under its key

productVars == <<p, pcall>>
inventoryVars == <<inv, icall>>
fetchVars == <<ids, fpc, fi, wg, upc, ulocal, results, errorsCh, closed, products>>
memoryVars == <<mem, mcall>>
mockVars == <<store, dcall>>
lockVars == <<kind, smap, mutex, cpc, creq, cres, gmap, expect, prevdel, race>>
raceVars == <<ginv, hpc, hreq, hres>>
restockVars == <<rs>>
persistVars == <<pinv, db, events, hcall>>
lookupVars == <<lkind, lptr, llocal, lcall>>
keyVars == <<kkind, kmap, kcall>>
baseVars == <<productVars, inventoryVars, fetchVars, memoryVars, mockVars>>
vars == <<p, pcall, inv, icall, ids, fpc, fi, wg, upc, ulocal, results, errorsCh,
          closed, products, mem, mcall, store, dcall,
          kind, smap, mutex, cpc, creq, cres, gmap, expect, prevdel, race,
          ginv, hpc, hreq, hres, rs, pinv, db, events, hcall,
          lkind, lptr, llocal, lcall,
          kkind, kmap, kcall>>

----------------------------------------------------------------------------
(* Bounds of the model *)

MaxID == 2          \* product IDs are 1..MaxID
MaxQuantity == 3    \* quantities stay within -MaxQuantity..MaxQuantity
MaxArg == 3         \* Sell/Restock arguments are drawn from -MaxArg..MaxArg
MaxBatch == 2       \* FetchProductsConcurrently is called with at most MaxBatch ids
NumCallers == 2     \* goroutines calling one storage concurrently
NumHandlers == 2    \* HTTP requests served concurrently, one goroutine each

(* The error values, productcatalog.go:11-20 *)
Nil == "nil"
ErrInsufficientStock == "insufficient stock"
ErrProductNotFound == "product not found"
ErrProductAlreadyExists == "product already exists"
ErrFailedToSaveProduct == "failed to save product"
ErrFailedToGetProduct == "failed to get product"
ErrFailedToDeleteProduct == "failed to delete product"
ErrFailedToFetchProductDetails == "failed to fetch product details"

IDs == 1..MaxID
ProductNames == {"Product 1", "Product 2"}
Categories == {"Category 1", "Category 2"}
Prices == {-10, 10, 20}
QuantityArgs == (-MaxArg)..MaxArg

PriceOf(name) == IF name = "Product 1" THEN 10 ELSE 20
QuantityOf(category) == IF category = "Category 1" THEN 2 ELSE 1

(* type Product struct *)
Product(id, name, price, quantity, category) ==
    [ID |-> id, Name |-> name, Price |-> price, Quantity |-> quantity,
     Category |-> category]

(* The products callers hand to the inventory and the stores *)
Catalog ==
    {Product(id, n, PriceOf(n), QuantityOf(c), c) :
        id \in IDs, n \in ProductNames, c \in Categories}

NilProduct == <<>>      \* a nil *Product; <<prod>> is a pointer to a copy of prod

(* The zero value Product{} *)
ZeroProduct == Product(0, "", 0, 0, "")

----------------------------------------------------------------------------
(* Go maps: a function whose domain is the set of keys present *)

EmptyMap == [k \in {} |-> ZeroProduct]
MapPut(m, k, v) == [x \in (DOMAIN m) \cup {k} |-> IF x = k THEN v ELSE m[x]]
MapDelete(m, k) == [x \in (DOMAIN m) \ {k} |-> m[x]]

----------------------------------------------------------------------------
(* Product methods.  Each returns the receiver after the call and the error. *)

UpdatePrice(prod, newPrice) == [prod EXCEPT !.Price = newPrice]

(* Sell with the comparison off by one: refuses to sell the last of the stock *)
SellOffByOne(prod, quantity) ==
    IF prod.Quantity <= quantity
    THEN [p |-> prod, err |-> ErrInsufficientStock]
    ELSE [p |-> [prod EXCEPT !.Quantity = @ - quantity], err |-> Nil]

Sell(prod, quantity) ==
    IF prod.Quantity < quantity
    THEN [p |-> prod, err |-> ErrInsufficientStock]
    ELSE [p |-> [prod EXCEPT !.Quantity = @ - quantity], err |-> Nil]

(* Restock that sets the quantity instead of adding to it *)
RestockAssigns(prod, quantity) == [prod EXCEPT !.Quantity = quantity]

(* func (p *Product) Restock(quantity int) *)
Restock(prod, quantity) == [prod EXCEPT !.Quantity = @ + quantity]

InQuantityRange(q) == q \in (-MaxQuantity)..MaxQuantity

NoProductCall == [op |-> "none", arg |-> 0, err |-> Nil]
ProductSummary(call) == [op |-> call.op, arg |-> call.arg, err |-> call.err]

CallUpdatePrice ==
    \E newPrice \in Prices :
        /\ p' = UpdatePrice(p, newPrice)
        /\ pcall' = [op |-> "UpdatePrice", arg |-> newPrice, err |-> Nil, pre |-> p,
                     last |-> ProductSummary(pcall)]
        /\ UNCHANGED <<inventoryVars, fetchVars, memoryVars, mockVars,
                     lockVars, raceVars, restockVars, persistVars, lookupVars, keyVars>>

CallSell ==
    \E quantity \in QuantityArgs :
        LET r == Sell(p, quantity) IN
        /\ InQuantityRange(r.p.Quantity)
        /\ p' = r.p
        /\ pcall' = [op |-> "Sell", arg |-> quantity, err |-> r.err, pre |-> p,
                     last |-> ProductSummary(pcall)]
        /\ UNCHANGED <<inventoryVars, fetchVars, memoryVars, mockVars,
                     lockVars, raceVars, restockVars, persistVars, lookupVars, keyVars>>

CallRestock ==
    \E quantity \in QuantityArgs :
        LET r == Restock(p, quantity) IN
        /\ InQuantityRange(r.Quantity)
        /\ p' = r
        /\ pcall' = [op |-> "Restock", arg |-> quantity, err |-> Nil, pre |-> p,
                     last |-> ProductSummary(pcall)]
        /\ UNCHANGED <<inventoryVars, fetchVars, memoryVars, mockVars,
                     lockVars, raceVars, restockVars, persistVars, lookupVars, keyVars>>

----------------------------------------------------------------------------
(* Inventory methods.  Each returns the map after the call and the error. *)

(* AddProduct that writes the entry before refusing *)
AddProductOverwrite(items, prod) ==
    IF prod.ID \in DOMAIN items
    THEN [Products |-> MapPut(items, prod.ID, prod), err |-> ErrProductAlreadyExists]
    ELSE [Products |-> MapPut(items, prod.ID, prod), err |-> Nil]

AddProduct(items, prod) ==
    IF prod.ID \in DOMAIN items
    THEN [Products |-> items, err |-> ErrProductAlreadyExists]
    ELSE [Products |-> MapPut(items, prod.ID, prod), err |-> Nil]

(* RemoveProduct without its delete *)
RemoveProductKeepsEntry(items, id) ==
    IF id \notin DOMAIN items
    THEN [Products |-> items, err |-> ErrProductNotFound]
    ELSE [Products |-> items, err |-> Nil]

RemoveProduct(items, id) ==
    IF id \notin DOMAIN items
    THEN [Products |-> items, err |-> ErrProductNotFound]
    ELSE [Products |-> MapDelete(items, id), err |-> Nil]

NoCall == [op |-> "none", id |-> 0, err |-> Nil]
Summary(call) == [op |-> call.op, id |-> call.id, err |-> call.err]

CallAddProduct ==
    \E prod \in Catalog :
        LET r == AddProduct(inv, prod) IN
        /\ inv' = r.Products
        /\ icall' = [op |-> "AddProduct", id |-> prod.ID, arg |-> <<prod>>,
                     err |-> r.err, pre |-> inv, last |-> Summary(icall)]
        /\ UNCHANGED <<productVars, fetchVars, memoryVars, mockVars,
                     lockVars, raceVars, restockVars, persistVars, lookupVars, keyVars>>

CallRemoveProduct ==
    \E id \in IDs :
        LET r == RemoveProduct(inv, id) IN
        /\ inv' = r.Products
        /\ icall' = [op |-> "RemoveProduct", id |-> id, arg |-> <<>>,
                     err |-> r.err, pre |-> inv, last |-> Summary(icall)]
        /\ UNCHANGED <<productVars, fetchVars, memoryVars, mockVars,
                     lockVars, raceVars, restockVars, persistVars, lookupVars, keyVars>>

----------------------------------------------------------------------------
(* ExternalAPI.FetchProductDetails and FetchProductsConcurrently *)

RandLimit == 100    \* rand.Intn(100)

(* The (price, quantity) pairs the two rand.Intn(100) draws are sampled at *)
RandomDraws == {<<0, RandLimit - 1>>, <<RandLimit - 1, 0>>}

(* fmt.Sprintf("Product %d", id) *)
SprintfProduct(id) == "Product " \o ToString(id)

(* Everything one call FetchProductDetails(id) can return, after its sleep:
   the random failure, or a product made for id. *)
(* FetchProductDetails that builds the product for the wrong id *)
FetchProductDetailsNextID(id) ==
    {[product |-> NilProduct, err |-> ErrFailedToFetchProductDetails]} \cup
    {[product |-> <<Product(id + 1, SprintfProduct(id + 1), d[1], d[2], "Category")>>,
      err |-> Nil] : d \in RandomDraws}

FetchProductDetails(id) ==
    {[product |-> NilProduct, err |-> ErrFailedToFetchProductDetails]} \cup
    {[product |-> <<Product(id, SprintfProduct(id), d[1], d[2], "Category")>>,
      err |-> Nil] : d \in RandomDraws}

Units == 1..Len(ids)
NoLocals == [product |-> NilProduct, err |-> Nil]

(* for _, id := range ids { wg.Add(1); go func(id int) {...}(id) }:
   one iteration; the goroutine gets the id by value. *)
Spawn ==
    /\ fpc = "loop" /\ fi < Len(ids)
    /\ wg' = wg + 1
    /\ fi' = fi + 1
    /\ upc' = [upc EXCEPT ![fi + 1] = "fetch"]
    /\ UNCHANGED <<ids, fpc, ulocal, results, errorsCh, closed, products>>
    /\ UNCHANGED <<productVars, inventoryVars, memoryVars, mockVars,
                     lockVars, raceVars, restockVars, persistVars, lookupVars, keyVars>>

(* the range over ids is exhausted *)
LoopEnd ==
    /\ fpc = "loop" /\ fi = Len(ids)
    /\ fpc' = "wait"
    /\ UNCHANGED <<ids, fi, wg, upc, ulocal, results, errorsCh, closed, products>>
    /\ UNCHANGED <<productVars, inventoryVars, memoryVars, mockVars,
                     lockVars, raceVars, restockVars, persistVars, lookupVars, keyVars>>

(* product, err := api.FetchProductDetails(id) *)
UnitFetch(i) ==
    /\ upc[i] = "fetch"
    /\ \E r \in FetchProductDetails(ids[i]) :
          ulocal' = [ulocal EXCEPT ![i] = r]
    /\ upc' = [upc EXCEPT ![i] = "send"]
    /\ UNCHANGED <<ids, fpc, fi, wg, results, errorsCh, closed, products>>
    /\ UNCHANGED <<productVars, inventoryVars, memoryVars, mockVars,
                     lockVars, raceVars, restockVars, persistVars, lookupVars, keyVars>>

(* Channels with room for one value less than there are ids *)
ChanCapOneShort == Len(ids) - 1

(* results := make(chan *Product, len(ids)); errors := make(chan error, len(ids)) *)
ChanCap == Len(ids)

(* if err != nil { errors <- err; return }; results <- product.
   A send blocks while the buffer is full and panics on a closed channel. *)
UnitSend(i) ==
    /\ upc[i] = "send"
    /\ IF ulocal[i].err # Nil
       THEN IF "errors" \in closed
            THEN fpc' = "panic" /\ UNCHANGED <<errorsCh, results>>
            ELSE /\ Len(errorsCh) < ChanCap
                 /\ errorsCh' = Append(errorsCh, ulocal[i].err)
                 /\ UNCHANGED <<fpc, results>>
       ELSE IF "results" \in closed
            THEN fpc' = "panic" /\ UNCHANGED <<errorsCh, results>>
            ELSE /\ Len(results) < ChanCap
                 /\ results' = Append(results, ulocal[i].product)
                 /\ UNCHANGED <<fpc, errorsCh>>
    /\ upc' = [upc EXCEPT ![i] = "deferred"]
    /\ UNCHANGED <<ids, fi, wg, ulocal, closed, products>>
    /\ UNCHANGED <<productVars, inventoryVars, memoryVars, mockVars,
                     lockVars, raceVars, restockVars, persistVars, lookupVars, keyVars>>

(* defer wg.Done() *)
UnitDone(i) ==
    /\ upc[i] = "deferred"
    /\ wg' = wg - 1
    /\ upc' = [upc EXCEPT ![i] = "exit"]
    /\ UNCHANGED <<ids, fpc, fi, ulocal, results, errorsCh, closed, products>>
    /\ UNCHANGED <<productVars, inventoryVars, memoryVars, mockVars,
                     lockVars, raceVars, restockVars, persistVars, lookupVars, keyVars>>

(* The caller going on without waiting for the counter to reach zero *)
WaitNoBarrier ==
    /\ fpc = "wait"
    /\ fpc' = "closeResults"
    /\ UNCHANGED <<ids, fi, wg, upc, ulocal, results, errorsCh, closed, products>>
    /\ UNCHANGED <<productVars, inventoryVars, memoryVars, mockVars,
                     lockVars, raceVars, restockVars, persistVars, lookupVars, keyVars>>

(* wg.Wait() *)
Wait ==
    /\ fpc = "wait" /\ wg = 0
    /\ fpc' = "closeResults"
    /\ UNCHANGED <<ids, fi, wg, upc, ulocal, results, errorsCh, closed, products>>
    /\ UNCHANGED <<productVars, inventoryVars, memoryVars, mockVars,
                     lockVars, raceVars, restockVars, persistVars, lookupVars, keyVars>>

(* close(results) *)
CloseResults ==
    /\ fpc = "closeResults"
    /\ closed' = closed \cup {"results"}
    /\ fpc' = "closeErrors"
    /\ UNCHANGED <<ids, fi, wg, upc, ulocal, results, errorsCh, products>>
    /\ UNCHANGED <<productVars, inventoryVars, memoryVars, mockVars,
                     lockVars, raceVars, restockVars, persistVars, lookupVars, keyVars>>

(* close(errors) *)
CloseErrors ==
    /\ fpc = "closeErrors"
    /\ closed' = closed \cup {"errors"}
    /\ fpc' = "range"
    /\ UNCHANGED <<ids, fi, wg, upc, ulocal, results, errorsCh, products>>
    /\ UNCHANGED <<productVars, inventoryVars, memoryVars, mockVars,
                     lockVars, raceVars, restockVars, persistVars, lookupVars, keyVars>>

(* The drain loop leaving after its first product *)
RangeResultsBreaks ==
    /\ fpc = "range"
    /\ IF results # <<>>
       THEN /\ products' = Append(products, Head(results)[1])
            /\ results' = Tail(results)
            /\ fpc' = "done"
       ELSE /\ "results" \in closed
            /\ fpc' = "done"
            /\ UNCHANGED <<results, products>>
    /\ UNCHANGED <<ids, fi, wg, upc, ulocal, errorsCh, closed>>
    /\ UNCHANGED <<productVars, inventoryVars, memoryVars, mockVars,
                     lockVars, raceVars, restockVars, persistVars, lookupVars, keyVars>>

(* for product := range results { products = append(products, product) };
   return products.  The range ends when the channel is closed and drained. *)
RangeResults ==
    /\ fpc = "range"
    /\ IF results # <<>>
       THEN /\ products' = Append(products, Head(results)[1])
            /\ results' = Tail(results)
            /\ UNCHANGED fpc
       ELSE /\ "results" \in closed
            /\ fpc' = "done"
            /\ UNCHANGED <<results, products>>
    /\ UNCHANGED <<ids, fi, wg, upc, ulocal, errorsCh, closed>>
    /\ UNCHANGED <<productVars, inventoryVars, memoryVars, mockVars,
                     lockVars, raceVars, restockVars, persistVars, lookupVars, keyVars>>

----------------------------------------------------------------------------
(* MemoryStorage methods.  Each runs between m.Lock() and the deferred
   m.Unlock(); it returns the map after the call and what the call returns. *)

(* Save that keeps an existing entry *)
MemoryStorage_SaveInsertOnly(m, prod) ==
    IF prod.ID \in DOMAIN m
    THEN [Products |-> m, err |-> Nil]
    ELSE [Products |-> MapPut(m, prod.ID, prod), err |-> Nil]

MemoryStorage_Save(m, prod) ==
    [Products |-> MapPut(m, prod.ID, prod), err |-> Nil]

MemoryStorage_GetByID(m, id) ==
    IF id \in DOMAIN m
    THEN [Products |-> m, product |-> <<m[id]>>, err |-> Nil]
    ELSE [Products |-> m, product |-> NilProduct, err |-> ErrProductNotFound]

(* Delete without the existence check *)
MemoryStorage_DeleteNoCheck(m, id) ==
    [Products |-> MapDelete(m, id), err |-> Nil]

MemoryStorage_Delete(m, id) ==
    IF id \notin DOMAIN m
    THEN [Products |-> m, err |-> ErrProductNotFound]
    ELSE [Products |-> MapDelete(m, id), err |-> Nil]

(* The record of a call: its arguments, the failure draw (mock database
   only), what it returned and the map before it; of the call before it, the
   same except that only the entry under its id is kept of the map (old). *)
NoStorageCall ==
    [op |-> "none", id |-> 0, arg |-> NilProduct, fail |-> FALSE, err |-> Nil,
     ret |-> NilProduct, old |-> NilProduct]
StorageSummary(call) ==
    [op |-> call.op, id |-> call.id, arg |-> call.arg, fail |-> call.fail,
     err |-> call.err, ret |-> call.ret,
     old |-> IF call.id \in DOMAIN call.pre THEN <<call.pre[call.id]>> ELSE NilProduct]
FirstStorageCall ==
    [op |-> "none", id |-> 0, arg |-> NilProduct, fail |-> FALSE, err |-> Nil,
     ret |-> NilProduct, pre |-> EmptyMap, last |-> NoStorageCall]
StorageCall(op, id, arg, fail, err, ret, pre, before) ==
    [op |-> op, id |-> id, arg |-> arg, fail |-> fail, err |-> err, ret |-> ret,
     pre |-> pre, last |-> StorageSummary(before)]

CallMemorySave ==
    \E prod \in Catalog :
        LET r == MemoryStorage_Save(mem, prod) IN
        /\ mem' = r.Products
        /\ mcall' = StorageCall("Save", prod.ID, <<prod>>, FALSE, r.err, NilProduct,
                                mem, mcall)
        /\ UNCHANGED <<productVars, inventoryVars, fetchVars, mockVars,
                     lockVars, raceVars, restockVars, persistVars, lookupVars, keyVars>>

CallMemoryGetByID ==
    \E id \in IDs :
        LET r == MemoryStorage_GetByID(mem, id) IN
        /\ mem' = r.Products
        /\ mcall' = StorageCall("GetByID", id, NilProduct, FALSE, r.err, r.product,
                                mem, mcall)
        /\ UNCHANGED <<productVars, inventoryVars, fetchVars, mockVars,
                     lockVars, raceVars, restockVars, persistVars, lookupVars, keyVars>>

CallMemoryDelete ==
    \E id \in IDs :
        LET r == MemoryStorage_Delete(mem, id) IN
        /\ mem' = r.Products
        /\ mcall' = StorageCall("Delete", id, NilProduct, FALSE, r.err, NilProduct,
                                mem, mcall)
        /\ UNCHANGED <<productVars, inventoryVars, fetchVars, mockVars,
                     lockVars, raceVars, restockVars, persistVars, lookupVars, keyVars>>

----------------------------------------------------------------------------
(* MockDatabaseStorage methods.  Each runs between mds.Lock() and the deferred
   mds.Unlock(); the sleep changes no state; fail is the outcome of
   rand.Float32() < 0.1, drawn anew in every call. *)

MockDatabaseStorage_Save(st, prod, fail) ==
    IF fail
    THEN [store |-> st, err |-> ErrFailedToSaveProduct]
    ELSE [store |-> MapPut(st, prod.ID, prod), err |-> Nil]

MockDatabaseStorage_GetByID(st, id, fail) ==
    IF fail
    THEN [store |-> st, product |-> NilProduct, err |-> ErrFailedToGetProduct]
    ELSE IF id \in DOMAIN st
         THEN [store |-> st, product |-> <<st[id]>>, err |-> Nil]
         ELSE [store |-> st, product |-> NilProduct, err |-> ErrProductNotFound]

(* Delete that looks the key up before the failure draw *)
MockDatabaseStorage_DeleteChecksFirst(st, id, fail) ==
    IF id \notin DOMAIN st
    THEN [store |-> st, err |-> ErrProductNotFound]
    ELSE IF fail
         THEN [store |-> st, err |-> ErrFailedToDeleteProduct]
         ELSE [store |-> MapDelete(st, id), err |-> Nil]

MockDatabaseStorage_Delete(st, id, fail) ==
    IF fail
    THEN [store |-> st, err |-> ErrFailedToDeleteProduct]
    ELSE IF id \notin DOMAIN st
         THEN [store |-> st, err |-> ErrProductNotFound]
         ELSE [store |-> MapDelete(st, id), err |-> Nil]

(* The record of a call, as for MemoryStorage; of the call before it only
   op, id, the failure draw, the error and whether the key was present. *)
NoMockCall == [op |-> "none", id |-> 0, fail |-> FALSE, err |-> Nil, present |-> FALSE]
MockSummary(call) ==
    [op |-> call.op, id |-> call.id, fail |-> call.fail, err |-> call.err,
     present |-> call.id \in DOMAIN call.pre]
FirstMockCall ==
    [op |-> "none", id |-> 0, arg |-> NilProduct, fail |-> FALSE, err |-> Nil,
     ret |-> NilProduct, pre |-> EmptyMap, last |-> NoMockCall]
MockCall(op, id, arg, fail, err, ret, pre, before) ==
    [op |-> op, id |-> id, arg |-> arg, fail |-> fail, err |-> err, ret |-> ret,
     pre |-> pre, last |-> MockSummary(before)]

CallMockSave ==
    \E prod \in Catalog, fail \in BOOLEAN :
        LET r == MockDatabaseStorage_Save(store, prod, fail) IN
        /\ store' = r.store
        /\ dcall' = MockCall("Save", prod.ID, <<prod>>, fail, r.err, NilProduct,
                                store, dcall)
        /\ UNCHANGED <<productVars, inventoryVars, fetchVars, memoryVars,
                     lockVars, raceVars, restockVars, persistVars, lookupVars, keyVars>>

CallMockGetByID ==
    \E id \in IDs, fail \in BOOLEAN :
        LET r == MockDatabaseStorage_GetByID(store, id, fail) IN
        /\ store' = r.store
        /\ dcall' = MockCall("GetByID", id, NilProduct, fail, r.err, r.product,
                                store, dcall)
        /\ UNCHANGED <<productVars, inventoryVars, fetchVars, memoryVars,
                     lockVars, raceVars, restockVars, persistVars, lookupVars, keyVars>>

CallMockDelete ==
    \E id \in IDs, fail \in BOOLEAN :
        LET r == MockDatabaseStorage_Delete(store, id, fail) IN
        /\ store' = r.store
        /\ dcall' = MockCall("Delete", id, NilProduct, fail, r.err, NilProduct,
                                store, dcall)
        /\ UNCHANGED <<productVars, inventoryVars, fetchVars, memoryVars,
                     lockVars, raceVars, restockVars, persistVars, lookupVars, keyVars>>

----------------------------------------------------------------------------
(* One storage (MemoryStorage or MockDatabaseStorage) called by concurrent
   goroutines.  A call is: Lock, the body, the deferred Unlock.  The body of
   Delete reads the map (the existence check) and writes it (the delete) in
   two steps; Save writes once and GetByID reads once.  gmap and expect run
   the same calls one after the other, in the order the bodies start. *)

Callers == 1..NumCallers
MemoryKind == "MemoryStorage"
MockKind == "MockDatabaseStorage"

(* The callers contend for one key: two different products are saved under it *)
SharedInputs == {prod \in Catalog : prod.ID = 1 /\ prod.Category = "Category 1"}
SharedIDs == {prod.ID : prod \in SharedInputs}

StorageRequests ==
    {[op |-> "Save", id |-> prod.ID, arg |-> <<prod>>] : prod \in SharedInputs}
    \cup {[op |-> o, id |-> id, arg |-> NilProduct] : o \in {"GetByID", "Delete"},
                                                     id \in SharedIDs}

NoRequest == [op |-> "none", id |-> 0, arg |-> NilProduct]
NoResult == [done |-> FALSE, fail |-> FALSE, err |-> Nil, product |-> NilProduct]
Result(fail, err, product) ==
    [done |-> TRUE, fail |-> fail, err |-> err, product |-> product]
NoDelete == [c |-> 0, id |-> 0, inflight |-> {}]
NoRace == [first |-> 0, second |-> 0, id |-> 0]

InCriticalSection == {c \in Callers : cpc[c] \in {"body", "delete", "unlock"}}
InFlight == {c \in Callers : cpc[c] # "idle"}

(* rand.Float32() < 0.1 is drawn by MockDatabaseStorage only *)
FailureDraws == IF kind = MockKind THEN BOOLEAN ELSE {FALSE}

(* The call req on map m run alone, by the methods' sequential definitions *)
SequentialCall(m, req, fail) ==
    IF req.op = "Save"
    THEN LET r == IF kind = MockKind
                  THEN MockDatabaseStorage_Save(m, req.arg[1], fail).store
                  ELSE MemoryStorage_Save(m, req.arg[1]).Products
             e == IF kind = MockKind
                  THEN MockDatabaseStorage_Save(m, req.arg[1], fail).err
                  ELSE MemoryStorage_Save(m, req.arg[1]).err
         IN  [map |-> r, res |-> Result(fail, e, NilProduct)]
    ELSE IF req.op = "GetByID"
    THEN LET r == IF kind = MockKind
                  THEN MockDatabaseStorage_GetByID(m, req.id, fail)
                  ELSE MemoryStorage_GetByID(m, req.id)
         IN  [map |-> m, res |-> Result(fail, r.err, r.product)]
    ELSE LET r == IF kind = MockKind
                  THEN MockDatabaseStorage_Delete(m, req.id, fail).store
                  ELSE MemoryStorage_Delete(m, req.id).Products
             e == IF kind = MockKind
                  THEN MockDatabaseStorage_Delete(m, req.id, fail).err
                  ELSE MemoryStorage_Delete(m, req.id).err
         IN  [map |-> r, res |-> Result(fail, e, NilProduct)]

(* A goroutine calls Save, GetByID or Delete *)
CallStorage(c) ==
    /\ cpc[c] = "idle"
    /\ \E req \in StorageRequests : creq' = [creq EXCEPT ![c] = req]
    /\ cpc' = [cpc EXCEPT ![c] = "lock"]
    /\ cres' = [cres EXCEPT ![c] = NoResult]
    /\ expect' = [expect EXCEPT ![c] = NoResult]
    /\ race' = IF c \in {race.first, race.second} THEN NoRace ELSE race
    /\ prevdel' = IF prevdel.c = c THEN NoDelete ELSE prevdel
    /\ UNCHANGED <<kind, smap, mutex, gmap>>
    /\ UNCHANGED <<baseVars, raceVars, restockVars, persistVars, lookupVars, keyVars>>

(* Lock that does not wait for the mutex to be free *)
LockNoWait(c) ==
    /\ cpc[c] = "lock"
    /\ mutex' = c
    /\ cpc' = [cpc EXCEPT ![c] = "body"]
    /\ UNCHANGED <<kind, smap, creq, cres, gmap, expect, prevdel, race>>
    /\ UNCHANGED <<baseVars, raceVars, restockVars, persistVars, lookupVars, keyVars>>

(* m.Lock() / mds.Lock(): blocks until the mutex is free *)
Lock(c) ==
    /\ cpc[c] = "lock"
    /\ mutex = 0
    /\ mutex' = c
    /\ cpc' = [cpc EXCEPT ![c] = "body"]
    /\ UNCHANGED <<kind, smap, creq, cres, gmap, expect, prevdel, race>>
    /\ UNCHANGED <<baseVars, raceVars, restockVars, persistVars, lookupVars, keyVars>>

(* The body up to its first return or, in Delete, up to the delete statement:
   the sleep and the failure draw (mock database), then the map access. *)
Body(c) ==
    /\ cpc[c] = "body"
    /\ \E fail \in FailureDraws :
        LET req == creq[c]
            seq == SequentialCall(gmap, req, fail)
            removes == req.op = "Delete" /\ ~fail /\ req.id \in DOMAIN smap
        IN
        /\ gmap' = seq.map
        /\ expect' = [expect EXCEPT ![c] = seq.res]
        /\ IF req.op = "Save"
           THEN IF fail
                THEN /\ cres' = [cres EXCEPT ![c] =
                                    Result(fail, ErrFailedToSaveProduct, NilProduct)]
                     /\ UNCHANGED smap
                ELSE /\ smap' = MapPut(smap, req.id, req.arg[1])
                     /\ cres' = [cres EXCEPT ![c] = Result(fail, Nil, NilProduct)]
           ELSE IF req.op = "GetByID"
           THEN /\ cres' = [cres EXCEPT ![c] =
                   IF fail THEN Result(fail, ErrFailedToGetProduct, NilProduct)
                   ELSE IF req.id \in DOMAIN smap
                        THEN Result(fail, Nil, <<smap[req.id]>>)
                        ELSE Result(fail, ErrProductNotFound, NilProduct)]
                /\ UNCHANGED smap
           ELSE /\ cres' = [cres EXCEPT ![c] =
                   IF fail THEN Result(fail, ErrFailedToDeleteProduct, NilProduct)
                   ELSE IF req.id \notin DOMAIN smap
                        THEN Result(fail, ErrProductNotFound, NilProduct)
                        ELSE NoResult]
                /\ UNCHANGED smap
        /\ cpc' = [cpc EXCEPT ![c] = IF removes THEN "delete" ELSE "unlock"]
        /\ prevdel' = IF removes
                      THEN [c |-> c, id |-> req.id, inflight |-> InFlight \ {c}]
                      ELSE NoDelete
        /\ race' = IF /\ req.op = "Delete" /\ ~fail
                      /\ prevdel.id = req.id /\ prevdel.c # c
                      /\ c \in prevdel.inflight
                   THEN [first |-> prevdel.c, second |-> c, id |-> req.id]
                   ELSE race
    /\ UNCHANGED <<kind, mutex, creq>>
    /\ UNCHANGED <<baseVars, raceVars, restockVars, persistVars, lookupVars, keyVars>>

(* delete(m.Products, id); return nil *)
DeleteEntry(c) ==
    /\ cpc[c] = "delete"
    /\ smap' = MapDelete(smap, creq[c].id)
    /\ cres' = [cres EXCEPT ![c] = Result(FALSE, Nil, NilProduct)]
    /\ cpc' = [cpc EXCEPT ![c] = "unlock"]
    /\ UNCHANGED <<kind, mutex, creq, gmap, expect, prevdel, race>>
    /\ UNCHANGED <<baseVars, raceVars, restockVars, persistVars, lookupVars, keyVars>>

(* The deferred Unlock failing to run on a return with an error *)
UnlockOnSuccessOnly(c) ==
    /\ cpc[c] = "unlock"
    /\ mutex' = IF cres[c].err = Nil THEN 0 ELSE mutex
    /\ cpc' = [cpc EXCEPT ![c] = "idle"]
    /\ UNCHANGED <<kind, smap, creq, cres, gmap, expect, prevdel, race>>
    /\ UNCHANGED <<baseVars, raceVars, restockVars, persistVars, lookupVars, keyVars>>

(* defer m.Unlock(): runs on every return; the call returns *)
Unlock(c) ==
    /\ cpc[c] = "unlock"
    /\ mutex' = 0
    /\ cpc' = [cpc EXCEPT ![c] = "idle"]
    /\ UNCHANGED <<kind, smap, creq, cres, gmap, expect, prevdel, race>>
    /\ UNCHANGED <<baseVars, raceVars, restockVars, persistVars, lookupVars, keyVars>>

(* for _, p := range i.Products visits every key once, in an order the
   language does not fix: any arrangement of the keys *)
KeyOrders(items) ==
    {o \in [1..Cardinality(DOMAIN items) -> DOMAIN items] :
        \A a, b \in DOMAIN o : a # b => o[a] # o[b]}

ListedCategories == Categories \cup {"Category 3"}

(* ListByCategory that returns after the first match *)
RECURSIVE ListByCategoryFirstMatch(_, _, _)
ListByCategoryFirstMatch(items, category, order) ==
    IF order = <<>> THEN <<>>
    ELSE IF items[Head(order)].Category = category
         THEN <<items[Head(order)]>>
         ELSE ListByCategoryFirstMatch(items, category, Tail(order))

(* func (i *Inventory) ListByCategory(category string) []Product *)
RECURSIVE ListByCategory(_, _, _)
ListByCategory(items, category, order) ==
    IF order = <<>> THEN <<>>
    ELSE IF items[Head(order)].Category = category
         THEN <<items[Head(order)]>> \o ListByCategory(items, category, Tail(order))
         ELSE ListByCategory(items, category, Tail(order))

(* The range loop of TotalValue: total += p.Price * float64(p.Quantity) *)
RECURSIVE TotalValueLoop(_, _, _)
TotalValueLoop(items, order, total) ==
    IF order = <<>> THEN total
    ELSE TotalValueLoop(items, Tail(order),
                        total + items[Head(order)].Price * items[Head(order)].Quantity)

(* TotalValue that adds up the prices only *)
RECURSIVE TotalValuePriceOnly(_, _)
TotalValuePriceOnly(items, order) ==
    IF order = <<>> THEN 0
    ELSE items[Head(order)].Price + TotalValuePriceOnly(items, Tail(order))

(* func (i *Inventory) TotalValue() float64 *)
TotalValue(items, order) == TotalValueLoop(items, order, 0)

CallListByCategory ==
    \E category \in ListedCategories, order \in KeyOrders(inv) :
        /\ icall' = [op |-> "ListByCategory", id |-> 0, arg |-> <<category>>,
                     err |-> Nil, pre |-> inv, last |-> Summary(icall),
                     ret |-> ListByCategory(inv, category, order)]
        /\ UNCHANGED inv
        /\ UNCHANGED <<productVars, fetchVars, memoryVars, mockVars,
                     lockVars, raceVars, restockVars, persistVars, lookupVars, keyVars>>

CallTotalValue ==
    \E order \in KeyOrders(inv) :
        /\ icall' = [op |-> "TotalValue", id |-> 0, arg |-> <<>>,
                     err |-> Nil, pre |-> inv, last |-> Summary(icall),
                     ret |-> TotalValue(inv, order)]
        /\ UNCHANGED inv
        /\ UNCHANGED <<productVars, fetchVars, memoryVars, mockVars,
                     lockVars, raceVars, restockVars, persistVars, lookupVars, keyVars>>

----------------------------------------------------------------------------
(* Three copies of one product: nm receives Restock(n) then Restock(m), mn
   receives Restock(m) then Restock(n), sum receives Restock(n + m). *)

RestockFirst ==
    /\ rs.step = 0
    /\ rs' = [rs EXCEPT !.nm = Restock(@, rs.n), !.mn = Restock(@, rs.m),
                        !.step = 1]
    /\ UNCHANGED <<baseVars, lockVars, raceVars, persistVars, lookupVars, keyVars>>

RestockSecond ==
    /\ rs.step = 1
    /\ rs' = [rs EXCEPT !.nm = Restock(@, rs.m), !.mn = Restock(@, rs.n),
                        !.step = 2]
    /\ UNCHANGED <<baseVars, lockVars, raceVars, persistVars, lookupVars, keyVars>>

RestockSum ==
    /\ rs.step = 2
    /\ rs' = [rs EXCEPT !.sum = Restock(@, rs.n + rs.m), !.step = 3]
    /\ UNCHANGED <<baseVars, lockVars, raceVars, persistVars, lookupVars, keyVars>>

----------------------------------------------------------------------------
(* The in-memory HTTP server: every POST /products is served by its own
   goroutine, which runs createProduct on the process-wide inventory ginv.
   Inventory.AddProduct reads the map (the existence check) and writes it
   (the insertion) in two steps, with no lock around them.  Two goroutines
   that are at a map access at the same time, one of them writing, race: the
   accesses then happen in either order, or the runtime detects the
   concurrent access and stops the process. *)

Handlers == 1..NumHandlers

(* Request bodies: two different products for every ID *)
Bodies == {prod \in Catalog : prod.Category = "Category 1"}

NoResponse == [status |-> "none", passed |-> FALSE, lost |-> NilProduct]

AtMapAccess == {h \in Handlers : hpc[h] \in {"check", "insert"}}

(* c.ShouldBindJSON(&product) succeeds *)
BindBody(h) ==
    /\ hpc[h] = "new"
    /\ \E prod \in Bodies : hreq' = [hreq EXCEPT ![h] = <<prod>>]
    /\ hpc' = [hpc EXCEPT ![h] = "check"]
    /\ UNCHANGED <<ginv, hres>>
    /\ UNCHANGED <<baseVars, lockVars, restockVars, persistVars, lookupVars, keyVars>>

(* c.ShouldBindJSON(&product) fails: 400 *)
BindFails(h) ==
    /\ hpc[h] = "new"
    /\ hres' = [hres EXCEPT ![h].status = "StatusBadRequest"]
    /\ hpc' = [hpc EXCEPT ![h] = "done"]
    /\ UNCHANGED <<ginv, hreq>>
    /\ UNCHANGED <<baseVars, lockVars, restockVars, persistVars, lookupVars, keyVars>>

(* AddProduct: if _, exists := i.Products[p.ID]; exists { return
   ErrProductAlreadyExists }, answered by createProduct with 409 *)
CheckExists(h) ==
    /\ hpc[h] = "check"
    /\ IF hreq[h][1].ID \in DOMAIN ginv
       THEN /\ hres' = [hres EXCEPT ![h].status = "StatusConflict"]
            /\ hpc' = [hpc EXCEPT ![h] = "done"]
       ELSE /\ hres' = [hres EXCEPT ![h].passed = TRUE]
            /\ hpc' = [hpc EXCEPT ![h] = "insert"]
    /\ UNCHANGED <<ginv, hreq>>
    /\ UNCHANGED <<baseVars, lockVars, restockVars, persistVars, lookupVars, keyVars>>

(* An insertion that looks at the map again and refuses a present key *)
InsertIfAbsent(h) ==
    /\ hpc[h] = "insert"
    /\ IF hreq[h][1].ID \in DOMAIN ginv
       THEN /\ hres' = [hres EXCEPT ![h].status = "StatusConflict"]
            /\ UNCHANGED ginv
       ELSE /\ hres' = [hres EXCEPT ![h].status = "StatusCreated"]
            /\ ginv' = MapPut(ginv, hreq[h][1].ID, hreq[h][1])
    /\ hpc' = [hpc EXCEPT ![h] = "done"]
    /\ UNCHANGED hreq
    /\ UNCHANGED <<baseVars, lockVars, restockVars, persistVars, lookupVars, keyVars>>

(* AddProduct: i.Products[p.ID] = p; return nil, answered with 201.  lost
   records the entry the assignment replaces. *)
Insert(h) ==
    /\ hpc[h] = "insert"
    /\ ginv' = MapPut(ginv, hreq[h][1].ID, hreq[h][1])
    /\ hres' = [hres EXCEPT ![h].status = "StatusCreated",
                            ![h].lost = IF hreq[h][1].ID \in DOMAIN ginv
                                        THEN <<ginv[hreq[h][1].ID]>>
                                        ELSE NilProduct]
    /\ hpc' = [hpc EXCEPT ![h] = "done"]
    /\ UNCHANGED hreq
    /\ UNCHANGED <<baseVars, lockVars, restockVars, persistVars, lookupVars, keyVars>>

(* The runtime's "concurrent map writes" / "concurrent map read and map
   write": possible whenever two goroutines are at a map access and one of
   them writes.  The process ends; no request in progress is answered. *)
ConcurrentMapFault ==
    /\ Cardinality(AtMapAccess) >= 2
    /\ \E h \in AtMapAccess : hpc[h] = "insert"
    /\ hpc' = [h \in Handlers |-> IF hpc[h] = "done" THEN "done" ELSE "fatal"]
    /\ UNCHANGED <<ginv, hreq, hres>>
    /\ UNCHANGED <<baseVars, lockVars, restockVars, persistVars, lookupVars, keyVars>>

----------------------------------------------------------------------------
(* The persistent HTTP server: the handlers work on the database table db
   (through gorm), on the package-level inventory pinv and on the Kafka topic
   events.  A database or Kafka call either does what it is for or returns
   an error; which one is an input of the handler.  hcall records the last
   request and its answer, with what held before it. *)

NoHandlerCall ==
    [op |-> "none", id |-> 0, body |-> NilProduct, bad |-> FALSE,
     dbFails |-> FALSE, pubFails |-> FALSE, status |-> "none", ret |-> <<>>,
     known |-> FALSE, nev |-> 0]

HandlerCall(op, id, body, bad, dbFails, pubFails, status, ret) ==
    [op |-> op, id |-> id, body |-> body, bad |-> bad,
     dbFails |-> dbFails, pubFails |-> pubFails, status |-> status, ret |-> ret,
     known |-> id \in DOMAIN db, nev |-> Len(events)]

(* type OrderCreated struct, as updateProduct and deleteProduct fill it *)
OrderCreated(id, quantity, status) ==
    [order_id |-> id, product_id |-> id, quantity |-> quantity, status |-> status]

(* The fields updateProduct copies from the request body *)
Overwritten(old, new) ==
    [old EXCEPT !.Name = new.Name, !.Price = new.Price,
                !.Quantity = new.Quantity, !.Category = new.Category]

(* POST /products *)
createProduct ==
    \E prod \in Bodies, bad \in BOOLEAN, dbFails \in BOOLEAN :
        LET status ==
                IF bad THEN "StatusBadRequest"
                ELSE IF dbFails THEN "StatusInternalServerError"
                ELSE IF prod.ID \in DOMAIN db THEN "StatusConflict"
                ELSE "StatusOK"
        IN
        /\ db' = IF status = "StatusOK" THEN MapPut(db, prod.ID, prod) ELSE db
        /\ hcall' = HandlerCall("createProduct", prod.ID, <<prod>>, bad, dbFails,
                                FALSE, status,
                                IF status = "StatusOK" THEN <<prod>> ELSE <<>>)
        /\ UNCHANGED <<pinv, events>>
        /\ UNCHANGED <<baseVars, lockVars, raceVars, restockVars, lookupVars, keyVars>>

(* GET /products/:id *)
getProduct ==
    \E id \in IDs, bad \in BOOLEAN :
        LET status ==
                IF bad THEN "StatusBadRequest"
                ELSE IF id \notin DOMAIN pinv THEN "StatusNotFound"
                ELSE "StatusOK"
        IN
        /\ hcall' = HandlerCall("getProduct", id, NilProduct, bad, FALSE, FALSE,
                                status,
                                IF status = "StatusOK" THEN <<pinv[id]>> ELSE <<>>)
        /\ UNCHANGED <<pinv, db, events>>
        /\ UNCHANGED <<baseVars, lockVars, raceVars, restockVars, lookupVars, keyVars>>

(* PUT /products/:id *)
updateProduct ==
    \E id \in IDs, body \in Bodies, bad \in BOOLEAN,
       dbFails \in BOOLEAN, pubFails \in BOOLEAN :
        LET exists == ~bad /\ id \in DOMAIN pinv
            product == Overwritten(pinv[id], body)
            status ==
                IF bad THEN "StatusBadRequest"
                ELSE IF ~exists THEN "StatusNotFound"
                ELSE IF dbFails \/ pubFails THEN "StatusInternalServerError"
                ELSE "StatusOK"
        IN
        /\ pinv' = IF exists THEN MapPut(pinv, id, product) ELSE pinv
        /\ db' = IF exists /\ ~dbFails THEN MapPut(db, product.ID, product) ELSE db
        /\ events' = IF status = "StatusOK"
                     THEN Append(events, OrderCreated(id, product.Quantity, "updated"))
                     ELSE events
        /\ hcall' = HandlerCall("updateProduct", id, <<body>>, bad, dbFails,
                                pubFails, status,
                                IF status = "StatusOK" THEN <<product>> ELSE <<>>)
        /\ UNCHANGED <<baseVars, lockVars, raceVars, restockVars, lookupVars, keyVars>>

(* DELETE /products/:id *)
deleteProduct ==
    \E id \in IDs, bad \in BOOLEAN, dbFails \in BOOLEAN, pubFails \in BOOLEAN :
        LET exists == ~bad /\ id \in DOMAIN pinv
            status ==
                IF bad THEN "StatusBadRequest"
                ELSE IF ~exists THEN "StatusNotFound"
                ELSE IF dbFails \/ pubFails THEN "StatusInternalServerError"
                ELSE "StatusNoContent"
        IN
        /\ pinv' = IF exists THEN MapDelete(pinv, id) ELSE pinv
        /\ db' = IF exists /\ ~dbFails THEN MapDelete(db, id) ELSE db
        /\ events' = IF status = "StatusNoContent"
                     THEN Append(events, OrderCreated(id, 0, "deleted"))
                     ELSE events
        /\ hcall' = HandlerCall("deleteProduct", id, NilProduct, bad, dbFails,
                                pubFails, status, <<>>)
        /\ UNCHANGED <<baseVars, lockVars, raceVars, restockVars, lookupVars, keyVars>>

(* GET /products *)
listProducts ==
    \E order \in KeyOrders(pinv) :
        /\ hcall' = HandlerCall("listProducts", 0, NilProduct, FALSE, FALSE, FALSE,
                                "StatusOK",
                                [k \in 1..Len(order) |-> pinv[order[k]]])
        /\ UNCHANGED <<pinv, db, events>>
        /\ UNCHANGED <<baseVars, lockVars, raceVars, restockVars, lookupVars, keyVars>>

----------------------------------------------------------------------------
(* Lookups and what their callers do with the returned *Product.  A pointer
   names the variable it points to: the lookup's own local p (whose value is
   llocal), or an entry of the container.  Methods called on the pointer read
   and write the variable it names. *)

InventoryKind == "Inventory"

NilPointer == [target |-> "nil", key |-> 0]

(* A pointer into the container, to the entry under key *)
AddressOfEntry(key) == [target |-> "entry", key |-> key]

(* &p, p being the local variable the entry was copied to *)
AddressOfLocal(key) == [target |-> "local", key |-> key]

Container ==
    IF lkind = InventoryKind THEN inv
    ELSE IF lkind = MemoryKind THEN mem
    ELSE store

(* The value of the variable ptr points to *)
Load(ptr) == IF ptr.target = "local" THEN llocal ELSE Container[ptr.key]

(* func (i *Inventory) FindProductByName(name string), returning a
   *Product and an error *)
RECURSIVE FindProductByName(_, _, _)
FindProductByName(items, name, order) ==
    IF order = <<>>
    THEN [ptr |-> NilPointer, local |-> ZeroProduct, err |-> ErrProductNotFound]
    ELSE IF items[Head(order)].Name = name
         THEN [ptr |-> AddressOfLocal(Head(order)), local |-> items[Head(order)],
               err |-> Nil]
         ELSE FindProductByName(items, name, Tail(order))

(* GetByID of the two storages: p, ok := m.Products[id]; return &p, nil *)
GetByIDPointer(r, id) ==
    IF r.err = Nil
    THEN [ptr |-> AddressOfLocal(id), local |-> r.product[1], err |-> Nil]
    ELSE [ptr |-> NilPointer, local |-> ZeroProduct, err |-> r.err]

LookupOps == {"FindProductByName", "GetByID"}
PointerOps == {"Sell", "Restock", "UpdatePrice"}

NoLookupSummary == [op |-> "none", key |-> 0, orig |-> NilProduct, changed |-> FALSE]
NoLookupCall ==
    [op |-> "none", key |-> 0, err |-> Nil, pre |-> EmptyMap,
     orig |-> NilProduct, changed |-> FALSE, last |-> NoLookupSummary]
LookupSummary(call) ==
    [op |-> call.op, key |-> call.key, orig |-> call.orig, changed |-> call.changed]

(* What the lookup draws: the mock database its failure, the others nothing *)
LookupDraws == IF lkind = MockKind THEN BOOLEAN ELSE {FALSE}

(* AddProduct / Save: the container's owner stores a product *)
StoreProduct ==
    \E prod \in Catalog, fail \in LookupDraws :
        /\ IF lkind = InventoryKind
           THEN inv' = AddProduct(inv, prod).Products /\ UNCHANGED <<mem, store>>
           ELSE IF lkind = MemoryKind
           THEN mem' = MemoryStorage_Save(mem, prod).Products
                /\ UNCHANGED <<inv, store>>
           ELSE store' = MockDatabaseStorage_Save(store, prod, fail).store
                /\ UNCHANGED <<inv, mem>>
        /\ lcall' = [NoLookupCall EXCEPT !.op = "store", !.key = prod.ID]
        /\ UNCHANGED <<lkind, lptr, llocal, icall, mcall, dcall>>
        /\ UNCHANGED <<productVars, fetchVars, lockVars, raceVars, restockVars,
                       persistVars, keyVars>>

(* The outcomes of FindProductByName(name) on the inventory, for every name
   and iteration order, or of GetByID(id) on the storage, for every id *)
LookupOutcomes ==
    IF lkind = InventoryKind
    THEN {FindProductByName(inv, name, order) :
              name \in ProductNames, order \in KeyOrders(inv)}
    ELSE IF lkind = MemoryKind
    THEN {GetByIDPointer(MemoryStorage_GetByID(mem, id), id) : id \in IDs}
    ELSE {GetByIDPointer(MockDatabaseStorage_GetByID(store, id, fail), id) :
              id \in IDs, fail \in LookupDraws}

(* FindProductByName(name) on the inventory, GetByID(id) on a storage *)
Lookup ==
    \E r \in LookupOutcomes :
        /\ lptr' = r.ptr
        /\ llocal' = r.local
        /\ lcall' = [op |-> IF lkind = InventoryKind THEN "FindProductByName"
                            ELSE "GetByID",
                     key |-> r.ptr.key, err |-> r.err, pre |-> Container,
                     orig |-> NilProduct, changed |-> FALSE,
                     last |-> LookupSummary(lcall)]
        /\ UNCHANGED <<lkind, inv, mem, store, icall, mcall, dcall>>
        /\ UNCHANGED <<productVars, fetchVars, lockVars, raceVars, restockVars,
                       persistVars, keyVars>>

PointerCalls ==
    {[op |-> o, arg |-> n] : o \in {"Sell", "Restock"}, n \in QuantityArgs}
    \cup {[op |-> "UpdatePrice", arg |-> newPrice] : newPrice \in Prices}

(* The caller calls Sell, Restock or UpdatePrice on the product a lookup has
   just returned. *)
ThroughPointer ==
    /\ lcall.op \in LookupOps /\ lcall.err = Nil
    /\ \E call \in PointerCalls :
        LET old == Load(lptr)
            r == IF call.op = "Sell" THEN Sell(old, call.arg)
                 ELSE IF call.op = "Restock"
                 THEN [p |-> Restock(old, call.arg), err |-> Nil]
                 ELSE [p |-> UpdatePrice(old, call.arg), err |-> Nil]
        IN
        /\ InQuantityRange(r.p.Quantity)
        /\ IF lptr.target = "local"
           THEN llocal' = r.p /\ UNCHANGED <<inv, mem, store>>
           ELSE /\ UNCHANGED llocal
                /\ inv' = IF lkind = InventoryKind
                          THEN MapPut(inv, lptr.key, r.p) ELSE inv
                /\ mem' = IF lkind = MemoryKind
                          THEN MapPut(mem, lptr.key, r.p) ELSE mem
                /\ store' = IF lkind = MockKind
                            THEN MapPut(store, lptr.key, r.p) ELSE store
        /\ lcall' = [op |-> call.op, key |-> lptr.key, err |-> r.err,
                     pre |-> Container,
                     orig |-> <<Container[lptr.key]>>, changed |-> r.p # old,
                     last |-> LookupSummary(lcall)]
    /\ UNCHANGED <<lkind, lptr, icall, mcall, dcall>>
    /\ UNCHANGED <<productVars, fetchVars, lockVars, raceVars, restockVars,
                   persistVars, keyVars>>

----------------------------------------------------------------------------
(* One container and the operations that write it, called one after the
   other: AddProduct and RemoveProduct on an Inventory, Save and Delete on a
   storage, and the handlers createProduct, updateProduct and deleteProduct
   of the in-memory HTTP server on its inventory. *)

ServerKind == "in-memory HTTP server"

NoKeyCall == [op |-> "none", key |-> 0, body |-> NilProduct, out |-> "none",
              old |-> NilProduct]
KeyCall(op, key, body, out) ==
    [op |-> op, key |-> key, body |-> body, out |-> out,
     old |-> IF key \in DOMAIN kmap THEN <<kmap[key]>> ELSE NilProduct]

(* What the mock database draws; the other containers draw nothing *)
KeyDraws == IF kkind = MockKind THEN BOOLEAN ELSE {FALSE}

(* func createProduct(c *gin.Context) of the in-memory server *)
InMemoryCreateProduct(items, product, bad) ==
    IF bad
    THEN [Products |-> items, status |-> "StatusBadRequest"]
    ELSE LET r == AddProduct(items, product)
         IN  [Products |-> r.Products,
              status |-> IF r.err = Nil THEN "StatusCreated"
                         ELSE IF r.err = ErrProductAlreadyExists THEN "StatusConflict"
                         ELSE "StatusInternalServerError"]

(* updateProduct storing the request body as it came, ID included *)
InMemoryUpdateProductStoresBody(items, id, updatedProduct, bad) ==
    IF bad
    THEN [Products |-> items, status |-> "StatusBadRequest"]
    ELSE IF id \notin DOMAIN items
    THEN [Products |-> items, status |-> "StatusNotFound"]
    ELSE [Products |-> MapPut(items, id, updatedProduct), status |-> "StatusOK"]

(* func updateProduct(c *gin.Context) of the in-memory server *)
InMemoryUpdateProduct(items, id, updatedProduct, bad) ==
    IF bad
    THEN [Products |-> items, status |-> "StatusBadRequest"]
    ELSE IF id \notin DOMAIN items
    THEN [Products |-> items, status |-> "StatusNotFound"]
    ELSE [Products |-> MapPut(items, id, Overwritten(items[id], updatedProduct)),
          status |-> "StatusOK"]

(* func deleteProduct(c *gin.Context) of the in-memory server *)
InMemoryDeleteProduct(items, id, bad) ==
    IF bad
    THEN [Products |-> items, status |-> "StatusBadRequest"]
    ELSE IF id \notin DOMAIN items
    THEN [Products |-> items, status |-> "StatusNotFound"]
    ELSE [Products |-> MapDelete(items, id), status |-> "StatusNoContent"]

(* i.AddProduct(p) *)
KeyAddProduct ==
    /\ kkind = InventoryKind
    /\ \E prod \in Catalog :
        LET r == AddProduct(kmap, prod) IN
        /\ kmap' = r.Products
        /\ kcall' = KeyCall("AddProduct", prod.ID, <<prod>>, r.err)
    /\ UNCHANGED kkind
    /\ UNCHANGED <<baseVars, lockVars, raceVars, restockVars, persistVars, lookupVars>>

(* i.RemoveProduct(id) *)
KeyRemoveProduct ==
    /\ kkind = InventoryKind
    /\ \E id \in IDs :
        LET r == RemoveProduct(kmap, id) IN
        /\ kmap' = r.Products
        /\ kcall' = KeyCall("RemoveProduct", id, NilProduct, r.err)
    /\ UNCHANGED kkind
    /\ UNCHANGED <<baseVars, lockVars, raceVars, restockVars, persistVars, lookupVars>>

(* Save(p) of MemoryStorage or MockDatabaseStorage *)
KeySave ==
    /\ kkind \in {MemoryKind, MockKind}
    /\ \E prod \in Catalog, fail \in KeyDraws :
        LET m == IF kkind = MemoryKind
                 THEN MemoryStorage_Save(kmap, prod).Products
                 ELSE MockDatabaseStorage_Save(kmap, prod, fail).store
            e == IF kkind = MemoryKind
                 THEN MemoryStorage_Save(kmap, prod).err
                 ELSE MockDatabaseStorage_Save(kmap, prod, fail).err
        IN
        /\ kmap' = m
        /\ kcall' = KeyCall("Save", prod.ID, <<prod>>, e)
    /\ UNCHANGED kkind
    /\ UNCHANGED <<baseVars, lockVars, raceVars, restockVars, persistVars, lookupVars>>

(* Delete(id) of MemoryStorage or MockDatabaseStorage *)
KeyDelete ==
    /\ kkind \in {MemoryKind, MockKind}
    /\ \E id \in IDs, fail \in KeyDraws :
        LET m == IF kkind = MemoryKind
                 THEN MemoryStorage_Delete(kmap, id).Products
                 ELSE MockDatabaseStorage_Delete(kmap, id, fail).store
            e == IF kkind = MemoryKind
                 THEN MemoryStorage_Delete(kmap, id).err
                 ELSE MockDatabaseStorage_Delete(kmap, id, fail).err
        IN
        /\ kmap' = m
        /\ kcall' = KeyCall("Delete", id, NilProduct, e)
    /\ UNCHANGED kkind
    /\ UNCHANGED <<baseVars, lockVars, raceVars, restockVars, persistVars, lookupVars>>

(* POST /products *)
KeyCreateProduct ==
    /\ kkind = ServerKind
    /\ \E product \in Catalog, bad \in BOOLEAN :
        LET r == InMemoryCreateProduct(kmap, product, bad) IN
        /\ kmap' = r.Products
        /\ kcall' = KeyCall("createProduct", product.ID, <<product>>, r.status)
    /\ UNCHANGED kkind
    /\ UNCHANGED <<baseVars, lockVars, raceVars, restockVars, persistVars, lookupVars>>

(* PUT /products/:id, with a body that carries any ID *)
KeyUpdateProduct ==
    /\ kkind = ServerKind
    /\ \E id \in IDs, updatedProduct \in Catalog, bad \in BOOLEAN :
        LET r == InMemoryUpdateProduct(kmap, id, updatedProduct, bad) IN
        /\ kmap' = r.Products
        /\ kcall' = KeyCall("updateProduct", id, <<updatedProduct>>, r.status)
    /\ UNCHANGED kkind
    /\ UNCHANGED <<baseVars, lockVars, raceVars, restockVars, persistVars, lookupVars>>

(* DELETE /products/:id *)
KeyDeleteProduct ==
    /\ kkind = ServerKind
    /\ \E id \in IDs, bad \in BOOLEAN :
        LET r == InMemoryDeleteProduct(kmap, id, bad) IN
        /\ kmap' = r.Products
        /\ kcall' = KeyCall("deleteProduct", id, NilProduct, r.status)
    /\ UNCHANGED kkind
    /\ UNCHANGED <<baseVars, lockVars, raceVars, restockVars, persistVars, lookupVars>>

----------------------------------------------------------------------------
(* Initial states and specifications *)

ProductIdle ==
    /\ p = ZeroProduct
    /\ pcall = [op |-> "none", arg |-> 0, err |-> Nil, pre |-> ZeroProduct,
                last |-> NoProductCall]

InventoryIdle ==
    /\ inv = EmptyMap
    /\ icall = [op |-> "none", id |-> 0, arg |-> <<>>, err |-> Nil,
                pre |-> EmptyMap, last |-> NoCall]

FetchIdle ==
    /\ ids = <<>> /\ fpc = "idle" /\ fi = 0 /\ wg = 0
    /\ upc = <<>> /\ ulocal = <<>>
    /\ results = <<>> /\ errorsCh = <<>> /\ closed = {} /\ products = <<>>

MemoryIdle ==
    /\ mem = EmptyMap
    /\ mcall = FirstStorageCall

MockIdle ==
    /\ store = EmptyMap
    /\ dcall = FirstMockCall

LockIdle ==
    /\ kind = "none" /\ smap = EmptyMap /\ mutex = 0
    /\ cpc = <<>> /\ creq = <<>> /\ cres = <<>>
    /\ gmap = EmptyMap /\ expect = <<>> /\ prevdel = NoDelete /\ race = NoRace

RaceIdle == ginv = EmptyMap /\ hpc = <<>> /\ hreq = <<>> /\ hres = <<>>

RestockIdle == rs = <<>>

PersistIdle == pinv = EmptyMap /\ db = EmptyMap /\ events = <<>> /\ hcall = <<>>

KeyIdle == kkind = "none" /\ kmap = EmptyMap /\ kcall = <<>>

LookupIdle == lkind = "none" /\ lptr = NilProduct /\ llocal = ZeroProduct /\ lcall = <<>>

(* A product as a caller constructs it: any catalog product, any stock >= 0 *)
InitProduct ==
    /\ p \in {[c EXCEPT !.Quantity = q] : c \in Catalog, q \in 0..MaxQuantity}
    /\ pcall = [op |-> "none", arg |-> 0, err |-> Nil, pre |-> p,
                last |-> NoProductCall]
    /\ InventoryIdle
    /\ FetchIdle
    /\ MemoryIdle
    /\ MockIdle
    /\ LockIdle /\ RaceIdle /\ RestockIdle /\ PersistIdle /\ LookupIdle /\ KeyIdle

NextProduct == CallUpdatePrice \/ CallSell \/ CallRestock

SpecProduct == InitProduct /\ [][NextProduct]_vars

(* Inventory{Products: make(map[int]Product)} *)
InitInventory ==
    /\ InventoryIdle
    /\ ProductIdle
    /\ FetchIdle
    /\ MemoryIdle
    /\ MockIdle
    /\ LockIdle /\ RaceIdle /\ RestockIdle /\ PersistIdle /\ LookupIdle /\ KeyIdle

NextInventory ==
    \/ CallAddProduct
    \/ CallRemoveProduct
    \/ CallListByCategory
    \/ CallTotalValue

SpecInventory == InitInventory /\ [][NextInventory]_vars

BoundedSeqs(S, n) == UNION {[1..k -> S] : k \in 0..n}

(* The call FetchProductsConcurrently(api, ids), just after the two make(chan) *)
InitFetch ==
    /\ ids \in BoundedSeqs(IDs, MaxBatch)
    /\ fpc = "loop" /\ fi = 0 /\ wg = 0
    /\ upc = [i \in 1..Len(ids) |-> "unborn"]
    /\ ulocal = [i \in 1..Len(ids) |-> NoLocals]
    /\ results = <<>> /\ errorsCh = <<>> /\ closed = {} /\ products = <<>>
    /\ ProductIdle
    /\ InventoryIdle
    /\ MemoryIdle
    /\ MockIdle
    /\ LockIdle /\ RaceIdle /\ RestockIdle /\ PersistIdle /\ LookupIdle /\ KeyIdle

NextFetch ==
    \/ Spawn
    \/ LoopEnd
    \/ \E i \in Units : UnitFetch(i)
    \/ \E i \in Units : UnitSend(i)
    \/ \E i \in Units : UnitDone(i)
    \/ Wait
    \/ CloseResults
    \/ CloseErrors
    \/ RangeResults

SpecFetch == InitFetch /\ [][NextFetch]_vars

(* Fair scheduling: a goroutine that can take its next step eventually takes
   it, and every FetchProductDetails call returns. *)
FairFetch ==
    /\ WF_vars(Spawn) /\ WF_vars(LoopEnd)
    /\ \A i \in 1..MaxBatch :
          /\ WF_vars(i \in Units /\ UnitFetch(i))
          /\ WF_vars(i \in Units /\ UnitSend(i))
          /\ WF_vars(i \in Units /\ UnitDone(i))
    /\ WF_vars(Wait) /\ WF_vars(CloseResults) /\ WF_vars(CloseErrors)
    /\ WF_vars(RangeResults)

SpecFetchFair == SpecFetch /\ FairFetch

(* NewMemoryStorage() *)
InitMemory ==
    /\ MemoryIdle
    /\ ProductIdle /\ InventoryIdle /\ FetchIdle /\ MockIdle
    /\ LockIdle /\ RaceIdle /\ RestockIdle /\ PersistIdle /\ LookupIdle /\ KeyIdle

NextMemory == CallMemorySave \/ CallMemoryGetByID \/ CallMemoryDelete

SpecMemory == InitMemory /\ [][NextMemory]_vars

(* NewMockDatabaseStorage() *)
InitMock ==
    /\ MockIdle
    /\ ProductIdle /\ InventoryIdle /\ FetchIdle /\ MemoryIdle
    /\ LockIdle /\ RaceIdle /\ RestockIdle /\ PersistIdle /\ LookupIdle /\ KeyIdle

NextMock == CallMockSave \/ CallMockGetByID \/ CallMockDelete

SpecMock == InitMock /\ [][NextMock]_vars

(* NewMemoryStorage() or NewMockDatabaseStorage(), handed to NumCallers goroutines *)
InitLocked ==
    /\ kind \in {MemoryKind, MockKind}
    /\ smap = EmptyMap /\ mutex = 0
    /\ cpc = [c \in Callers |-> "idle"]
    /\ creq = [c \in Callers |-> NoRequest]
    /\ cres = [c \in Callers |-> NoResult]
    /\ gmap = EmptyMap
    /\ expect = [c \in Callers |-> NoResult]
    /\ prevdel = NoDelete /\ race = NoRace
    /\ ProductIdle /\ InventoryIdle /\ FetchIdle /\ MemoryIdle /\ MockIdle
    /\ RaceIdle /\ RestockIdle /\ PersistIdle /\ LookupIdle /\ KeyIdle

NextLocked ==
    \/ \E c \in Callers : CallStorage(c)
    \/ \E c \in Callers : Lock(c)
    \/ \E c \in Callers : Body(c)
    \/ \E c \in Callers : DeleteEntry(c)
    \/ \E c \in Callers : Unlock(c)

SpecLocked == InitLocked /\ [][NextLocked]_vars

(* Fair scheduling: a caller inside the critical section goes on running,
   and a caller waiting in Lock gets the mutex if it is free again and again
   (sync.Mutex hands the lock to a waiter that has waited long).  Callers
   are not obliged to start new calls. *)
FairLocked ==
    \A c \in Callers :
        /\ SF_vars(Lock(c))
        /\ WF_vars(Body(c))
        /\ WF_vars(DeleteEntry(c))
        /\ WF_vars(Unlock(c))

SpecLockedFair == SpecLocked /\ FairLocked

(* Any product, any stock level Sell and Restock can leave, any two arguments *)
InitRestock ==
    /\ \E start \in {[c EXCEPT !.Quantity = q] :
                        c \in Catalog, q \in (-MaxQuantity)..MaxQuantity},
          n \in QuantityArgs, m \in QuantityArgs :
          rs = [start |-> start, n |-> n, m |-> m,
                nm |-> start, mn |-> start, sum |-> start, step |-> 0]
    /\ ProductIdle /\ InventoryIdle /\ FetchIdle /\ MemoryIdle /\ MockIdle
    /\ LockIdle /\ RaceIdle /\ PersistIdle /\ LookupIdle /\ KeyIdle

NextRestock == RestockFirst \/ RestockSecond \/ RestockSum

SpecRestock == InitRestock /\ [][NextRestock]_vars

(* var inventory = Inventory{Products: make(map[int]Product)}; router.Run *)
InitRace ==
    /\ ginv = EmptyMap
    /\ hpc = [h \in Handlers |-> "new"]
    /\ hreq = [h \in Handlers |-> NilProduct]
    /\ hres = [h \in Handlers |-> NoResponse]
    /\ ProductIdle /\ InventoryIdle /\ FetchIdle /\ MemoryIdle /\ MockIdle
    /\ LockIdle /\ RestockIdle /\ PersistIdle /\ LookupIdle /\ KeyIdle

NextRace ==
    \/ \E h \in Handlers : BindBody(h)
    \/ \E h \in Handlers : BindFails(h)
    \/ \E h \in Handlers : CheckExists(h)
    \/ \E h \in Handlers : Insert(h)
    \/ ConcurrentMapFault

SpecRace == InitRace /\ [][NextRace]_vars

(* The package-level variables after main has connected the database, on
   an empty table *)
InitPersistent ==
    /\ pinv = EmptyMap
    /\ db = EmptyMap
    /\ events = <<>>
    /\ hcall = NoHandlerCall
    /\ ProductIdle /\ InventoryIdle /\ FetchIdle /\ MemoryIdle /\ MockIdle
    /\ LockIdle /\ RaceIdle /\ RestockIdle /\ LookupIdle /\ KeyIdle

NextPersistent ==
    \/ createProduct
    \/ getProduct
    \/ updateProduct
    \/ deleteProduct
    \/ listProducts

SpecPersistent == InitPersistent /\ [][NextPersistent]_vars

(* An empty Inventory, MemoryStorage or MockDatabaseStorage and its user *)
InitLookup ==
    /\ lkind \in {InventoryKind, MemoryKind, MockKind}
    /\ lptr = NilPointer
    /\ llocal = ZeroProduct
    /\ lcall = NoLookupCall
    /\ ProductIdle /\ InventoryIdle /\ FetchIdle /\ MemoryIdle /\ MockIdle
    /\ LockIdle /\ RaceIdle /\ RestockIdle /\ PersistIdle /\ KeyIdle

NextLookup == StoreProduct \/ Lookup \/ ThroughPointer

SpecLookup == InitLookup /\ [][NextLookup]_vars

(* An empty Inventory, MemoryStorage, MockDatabaseStorage or server inventory *)
InitKeys ==
    /\ kkind \in {InventoryKind, MemoryKind, MockKind, ServerKind}
    /\ kmap = EmptyMap
    /\ kcall = NoKeyCall
    /\ ProductIdle /\ InventoryIdle /\ FetchIdle /\ MemoryIdle /\ MockIdle
    /\ LockIdle /\ RaceIdle /\ RestockIdle /\ PersistIdle /\ LookupIdle

NextKeys ==
    \/ KeyAddProduct
    \/ KeyRemoveProduct
    \/ KeySave
    \/ KeyDelete
    \/ KeyCreateProduct
    \/ KeyUpdateProduct
    \/ KeyDeleteProduct

SpecKeys == InitKeys /\ [][NextKeys]_vars

Init == InitProduct
Next == NextProduct
Spec == SpecProduct

----------------------------------------------------------------------------
(* Properties of Product, checked under SpecProduct *)

(* C1: for a product with Quantity = q, Sell(n) with n <= q returns no error
   and leaves Quantity = q - n with every other field as it was; Sell(n) with
   n > q returns ErrInsufficientStock and leaves the whole product unchanged. *)
C1_SellContract ==
    pcall.op = "Sell" =>
        LET q == pcall.pre.Quantity
            n == pcall.arg
        IN  IF n <= q
            THEN /\ pcall.err = Nil
                 /\ p.Quantity = q - n
                 /\ p.ID = pcall.pre.ID /\ p.Name = pcall.pre.Name
                 /\ p.Price = pcall.pre.Price /\ p.Category = pcall.pre.Category
            ELSE /\ pcall.err = ErrInsufficientStock
                 /\ p = pcall.pre

(* The test's scenario: a Sell that succeeds, then a Sell that is refused. *)
C1_Witness ==
    /\ pcall.op = "Sell" /\ pcall.err = ErrInsufficientStock
    /\ pcall.arg > pcall.pre.Quantity /\ pcall.pre.Quantity > 0
    /\ pcall.last.op = "Sell" /\ pcall.last.err = Nil /\ pcall.last.arg > 0

(* C2: Quantity never goes negative, whatever integer arguments Sell, Restock
   and UpdatePrice are called with. *)
C2_QuantityNeverNegative == p.Quantity >= 0

----------------------------------------------------------------------------
(* Properties of Inventory, checked under SpecInventory *)

(* C3: AddProduct(p) with p.ID already a key returns ErrProductAlreadyExists
   and leaves the whole inventory unchanged; with p.ID absent it returns no
   error, stores p under p.ID and leaves every other entry unchanged. *)
C3_AddProductContract ==
    icall.op = "AddProduct" =>
        LET prod == icall.arg[1] IN
        IF prod.ID \in DOMAIN icall.pre
        THEN /\ icall.err = ErrProductAlreadyExists
             /\ inv = icall.pre
        ELSE /\ icall.err = Nil
             /\ DOMAIN inv = (DOMAIN icall.pre) \cup {prod.ID}
             /\ inv[prod.ID] = prod
             /\ \A k \in DOMAIN icall.pre : inv[k] = icall.pre[k]

(* A second add of an ID, with other fields than the stored product's, is
   refused while another entry is present too. *)
C3_Witness ==
    /\ icall.op = "AddProduct" /\ icall.err = ErrProductAlreadyExists
    /\ icall.arg[1] # icall.pre[icall.id]
    /\ inv[icall.id] = icall.pre[icall.id]
    /\ Cardinality(DOMAIN inv) > 1

(* C4: RemoveProduct(id) on a present id returns no error, removes exactly
   that key and leaves all other entries unchanged; an immediately following
   RemoveProduct(id) returns ErrProductNotFound and changes nothing. *)
C4_RemoveProductContract ==
    icall.op = "RemoveProduct" =>
        /\ icall.id \in DOMAIN icall.pre =>
              /\ icall.err = Nil
              /\ DOMAIN inv = (DOMAIN icall.pre) \ {icall.id}
              /\ \A k \in DOMAIN inv : inv[k] = icall.pre[k]
        /\ (icall.last.op = "RemoveProduct" /\ icall.last.id = icall.id
              /\ icall.last.err = Nil) =>
              /\ icall.err = ErrProductNotFound
              /\ inv = icall.pre

(* Remove, then remove again, with another entry still stored. *)
C4_Witness ==
    /\ icall.op = "RemoveProduct" /\ icall.err = ErrProductNotFound
    /\ icall.last.op = "RemoveProduct" /\ icall.last.id = icall.id
    /\ icall.last.err = Nil
    /\ DOMAIN inv # {}

----------------------------------------------------------------------------
(* Properties of FetchProductsConcurrently, checked under SpecFetch *)

Returned == fpc = "done"
Succeeded == {i \in Units : upc[i] # "unborn" /\ upc[i] # "fetch" /\ ulocal[i].err = Nil}
Failed == {i \in Units : ulocal[i].err # Nil}
TimesReturned(id) == Cardinality({k \in 1..Len(products) : products[k].ID = id})
TimesRequested(id) == Cardinality({i \in Units : ids[i] = id})

(* C5: FetchProductsConcurrently(api, ids) returns at most len(ids) products,
   every returned product has an ID that occurs in ids, and no ID is returned
   more often than it occurs in ids. *)
C5_ResultWithinRequest ==
    /\ Len(products) <= Len(ids)
    /\ \A k \in 1..Len(products) : \E i \in Units : products[k].ID = ids[i]
    /\ \A k \in 1..Len(products) :
          TimesReturned(products[k].ID) <= TimesRequested(products[k].ID)

(* A full batch that asks for one ID twice and gets it twice. *)
C5_Witness ==
    /\ Returned /\ Len(ids) = MaxBatch /\ Len(products) = Len(ids)
    /\ ids[1] = ids[2]

(* C6: full barrier: once the caller is past wg.Wait() (closing the channels,
   draining results, returned), every one of the len(ids) goroutines has been
   started, has finished its FetchProductDetails call, has delivered its
   result or error and has exited; no send ever meets a closed channel. *)
C6_FullBarrier ==
    /\ fpc \in {"closeResults", "closeErrors", "range", "done"} =>
          /\ fi = Len(ids)
          /\ \A i \in Units : upc[i] = "exit"
          /\ Len(results) + Len(products) + Len(errorsCh) = Len(ids)
    /\ fpc # "panic"

(* A full batch has returned, with a failed and a successful unit. *)
C6_Witness ==
    /\ Returned /\ Len(ids) = MaxBatch
    /\ Failed # {} /\ Succeeded # {}

(* C7: failures are dropped and every success is kept: at return the IDs of
   the products are, with multiplicity, the IDs of the units whose call
   succeeded, each returned product is the one such a unit fetched, the
   errors stay unread in their channel, and results + failures = len(ids). *)
C7_DropFailuresKeepSuccesses ==
    Returned =>
        /\ \A id \in IDs :
              TimesReturned(id) = Cardinality({i \in Succeeded : ids[i] = id})
        /\ \A k \in 1..Len(products) :
              \E i \in Succeeded : ulocal[i].product = <<products[k]>>
        /\ Len(errorsCh) = Cardinality(Failed)
        /\ Len(products) + Cardinality(Failed) = Len(ids)

(* A full batch with exactly one failed unit. *)
C7_Witness ==
    /\ Returned /\ Len(ids) = MaxBatch
    /\ Cardinality(Failed) = 1 /\ Len(products) = Len(ids) - 1
    /\ Len(products) > 0

----------------------------------------------------------------------------
(* Properties of MemoryStorage, checked under SpecMemory *)

(* C8: MemoryStorage.Save is an upsert that always succeeds: after Save(p),
   GetByID(p.ID) returns a product equal to p whether or not the key existed,
   all other keys are unchanged; GetByID never changes the store, and for an
   absent id it returns a nil product and ErrProductNotFound. *)
C8_SaveIsUpsert ==
    /\ mcall.op = "Save" =>
          /\ mcall.err = Nil
          /\ DOMAIN mem = (DOMAIN mcall.pre) \cup {mcall.id}
          /\ <<mem[mcall.id]>> = mcall.arg
          /\ \A k \in (DOMAIN mcall.pre) \ {mcall.id} : mem[k] = mcall.pre[k]
    /\ mcall.op = "GetByID" =>
          /\ mem = mcall.pre
          /\ IF mcall.id \in DOMAIN mcall.pre
             THEN mcall.err = Nil /\ mcall.ret = <<mcall.pre[mcall.id]>>
             ELSE mcall.err = ErrProductNotFound /\ mcall.ret = NilProduct
    /\ (mcall.op = "GetByID" /\ mcall.last.op = "Save" /\ mcall.last.id = mcall.id) =>
          /\ mcall.err = Nil
          /\ mcall.ret = mcall.last.arg

(* Save over an existing, different entry, then GetByID of that ID, with
   another key stored as well. *)
C8_Witness ==
    /\ mcall.op = "GetByID" /\ mcall.last.op = "Save" /\ mcall.last.id = mcall.id
    /\ mcall.last.old # NilProduct
    /\ mcall.last.old # mcall.last.arg
    /\ mcall.ret = mcall.last.arg
    /\ Cardinality(DOMAIN mem) > 1

(* C9: MemoryStorage.Delete(id) on a present id returns no error and removes
   exactly that key; on an absent id, also directly after a successful
   Delete of the same id, it returns ErrProductNotFound and changes nothing. *)
C9_DeleteContract ==
    mcall.op = "Delete" =>
        /\ IF mcall.id \in DOMAIN mcall.pre
           THEN /\ mcall.err = Nil
                /\ DOMAIN mem = (DOMAIN mcall.pre) \ {mcall.id}
                /\ \A k \in DOMAIN mem : mem[k] = mcall.pre[k]
           ELSE /\ mcall.err = ErrProductNotFound
                /\ mem = mcall.pre
        /\ (mcall.last.op = "Delete" /\ mcall.last.id = mcall.id
              /\ mcall.last.err = Nil) =>
              /\ mcall.err = ErrProductNotFound
              /\ mem = mcall.pre

(* Delete, then Delete again, with another key still stored. *)
C9_Witness ==
    /\ mcall.op = "Delete" /\ mcall.err = ErrProductNotFound
    /\ mcall.last.op = "Delete" /\ mcall.last.id = mcall.id
    /\ mcall.last.err = Nil
    /\ DOMAIN mem # {}

----------------------------------------------------------------------------
(* Properties of MockDatabaseStorage, checked under SpecMock *)

TransientError(op) ==
    IF op = "Save" THEN ErrFailedToSaveProduct
    ELSE IF op = "GetByID" THEN ErrFailedToGetProduct
    ELSE ErrFailedToDeleteProduct

TransientErrors ==
    {ErrFailedToSaveProduct, ErrFailedToGetProduct, ErrFailedToDeleteProduct}

(* C10: the transient-failure choice comes before the existence check: in
   every store, for a present and for an absent key alike, each of Save,
   GetByID and Delete can return its own transient error; a call whose failure
   triggered returns that error, never ErrProductNotFound, and leaves the
   store unchanged; ErrProductNotFound is returned only when the failure did
   not trigger and the key is absent. *)
C10_TransientBeforeExistence ==
    /\ \A id \in IDs :
          /\ \E f \in BOOLEAN :
                MockDatabaseStorage_GetByID(store, id, f).err = ErrFailedToGetProduct
          /\ \E f \in BOOLEAN :
                MockDatabaseStorage_Delete(store, id, f).err = ErrFailedToDeleteProduct
          /\ \A prod \in Catalog : \E f \in BOOLEAN :
                MockDatabaseStorage_Save(store, prod, f).err = ErrFailedToSaveProduct
    /\ dcall.op # "none" =>
          /\ dcall.fail =>
                /\ dcall.err = TransientError(dcall.op)
                /\ store = dcall.pre
          /\ dcall.err \in TransientErrors => dcall.fail
          /\ dcall.err = ErrProductNotFound =>
                /\ ~dcall.fail
                /\ dcall.id \notin DOMAIN dcall.pre
                /\ dcall.op \in {"GetByID", "Delete"}

(* A Delete of an absent key fails transiently, right after a GetByID of a
   present key failed transiently. *)
C10_Witness ==
    /\ dcall.op = "Delete" /\ dcall.fail /\ dcall.id \notin DOMAIN dcall.pre
    /\ dcall.err = ErrFailedToDeleteProduct
    /\ dcall.last.op = "GetByID" /\ dcall.last.fail
    /\ dcall.last.present
    /\ dcall.last.err = ErrFailedToGetProduct

----------------------------------------------------------------------------
(* Properties of a storage under concurrent callers, checked under SpecLocked *)

(* C11: the single lock covers the whole read-modify-write of every
   operation: at most one caller is ever between Lock and Unlock, and it is
   the one that holds the mutex; every call returns what it returns when the
   calls run one after the other in lock order, and the map is then the same;
   of two overlapping Delete(id) calls that run back to back on a present key,
   without a transient failure, the first returns no error and the second
   ErrProductNotFound. *)
C11_LockSerializes ==
    /\ Cardinality(InCriticalSection) <= 1
    /\ \A c \in InCriticalSection : mutex = c
    /\ mutex # 0 => mutex \in InCriticalSection
    /\ \A c \in Callers : cres[c].done => cres[c] = expect[c]
    /\ mutex = 0 => smap = gmap
    /\ race # NoRace =>
          /\ cres[race.first].done => cres[race.first].err = Nil
          /\ cres[race.second].done => cres[race.second].err = ErrProductNotFound

(* Two callers were in Delete of the same present key at the same time, and
   both have returned: one with no error, one with ErrProductNotFound. *)
C11_Witness ==
    /\ race # NoRace
    /\ cpc[race.first] = "idle" /\ cpc[race.second] = "idle"
    /\ cres[race.first].done /\ cres[race.first].err = Nil
    /\ cres[race.second].done /\ cres[race.second].err = ErrProductNotFound
    /\ creq[race.first].op = "Delete" /\ creq[race.second].op = "Delete"
    /\ creq[race.first].id = creq[race.second].id

----------------------------------------------------------------------------
(* Properties of the Inventory queries, checked under SpecInventory *)

Matching(items, category) == {k \in DOMAIN items : items[k].Category = category}

(* C12: ListByCategory(c) returns exactly the stored products whose Category
   equals c, each of them once and nothing else; with no match the result is
   empty; there is no error and the inventory is not changed. *)
C12_ListByCategoryExact ==
    icall.op = "ListByCategory" =>
        LET category == icall.arg[1]
            ret == icall.ret
            matches == Matching(icall.pre, category)
        IN
        /\ {ret[j] : j \in 1..Len(ret)} = {icall.pre[k] : k \in matches}
        /\ Len(ret) = Cardinality(matches)
        /\ \A a, b \in 1..Len(ret) : a # b => ret[a] # ret[b]
        /\ matches = {} => ret = <<>>
        /\ icall.err = Nil
        /\ inv = icall.pre

(* A listing that returns one of two stored products and leaves the other,
   of another category, out. *)
C12_Witness ==
    /\ icall.op = "ListByCategory"
    /\ Len(icall.ret) = 1
    /\ Cardinality(DOMAIN inv) = 2
    /\ \E k \in DOMAIN inv : inv[k].Category # icall.arg[1]

RECURSIVE SumOfValues(_, _)
SumOfValues(items, keys) ==
    IF keys = {} THEN 0
    ELSE LET k == CHOOSE k \in keys : TRUE
         IN  items[k].Price * items[k].Quantity + SumOfValues(items, keys \ {k})

ExampleInventory ==
    MapPut(MapPut(EmptyMap, 1, Product(1, "Product 1", 10, 2, "Category 1")),
           2, Product(2, "Product 2", 20, 1, "Category 2"))

(* C13: TotalValue() is the sum of Price * Quantity over the stored
   products, whatever order the map is walked in: 0 for an empty inventory,
   40 for {(10, 2), (20, 1)}; it changes nothing; a successful AddProduct(p)
   raises it by p.Price * p.Quantity and a successful RemoveProduct lowers it
   by the removed product's Price * Quantity. *)
C13_TotalValueIsSum ==
    /\ icall.op = "TotalValue" =>
          /\ icall.ret = SumOfValues(icall.pre, DOMAIN icall.pre)
          /\ icall.pre = EmptyMap => icall.ret = 0
          /\ icall.pre = ExampleInventory => icall.ret = 40
          /\ inv = icall.pre
    /\ (icall.op = "AddProduct" /\ icall.err = Nil) =>
          \A before \in KeyOrders(icall.pre), after \in KeyOrders(inv) :
              TotalValue(inv, after) =
                  TotalValue(icall.pre, before)
                  + icall.arg[1].Price * icall.arg[1].Quantity
    /\ (icall.op = "RemoveProduct" /\ icall.err = Nil) =>
          \A before \in KeyOrders(icall.pre), after \in KeyOrders(inv) :
              TotalValue(inv, after) =
                  TotalValue(icall.pre, before)
                  - icall.pre[icall.id].Price * icall.pre[icall.id].Quantity

(* TotalValue of the inventory holding (10, 2) and (20, 1) returned 40. *)
C13_Witness ==
    /\ icall.op = "TotalValue"
    /\ icall.pre = ExampleInventory
    /\ icall.ret = 40

----------------------------------------------------------------------------
(* Properties of repeated Restock, checked under SpecRestock *)

SameButQuantity(a, b) == [a EXCEPT !.Quantity = b.Quantity] = b

(* C14: Restock(n) followed by Restock(m) leaves the product in the same
   state as one Restock(n + m) and as Restock(m) followed by Restock(n): the
   starting state with Quantity raised by n + m; no Restock changes a field
   other than Quantity. *)
C14_RestockAdditive ==
    /\ rs.step = 1 =>
          /\ rs.nm = [rs.start EXCEPT !.Quantity = rs.start.Quantity + rs.n]
          /\ rs.mn = [rs.start EXCEPT !.Quantity = rs.start.Quantity + rs.m]
    /\ rs.step >= 2 => rs.nm = rs.mn
    /\ rs.step = 3 =>
          /\ rs.nm = rs.sum
          /\ rs.sum = [rs.start EXCEPT !.Quantity = rs.start.Quantity + rs.n + rs.m]
    /\ SameButQuantity(rs.start, rs.nm)
    /\ SameButQuantity(rs.start, rs.mn)
    /\ SameButQuantity(rs.start, rs.sum)

(* Two different restocks, one of them negative, have been applied in both
   orders and as one, and the stock moved. *)
C14_Witness ==
    /\ rs.step = 3
    /\ rs.n # rs.m /\ rs.n < 0 /\ rs.m > 0
    /\ rs.sum.Quantity # rs.start.Quantity
    /\ rs.nm = rs.sum /\ rs.mn = rs.sum

----------------------------------------------------------------------------
(* Properties of concurrent createProduct handlers, checked under SpecRace *)

Created(h) == hpc[h] = "done" /\ hres[h].status = "StatusCreated"

(* C15: AddProduct's existence check and its insertion are separate
   unguarded steps: a call whose check found the ID absent inserts and
   returns success whatever has been stored under the ID in between, and
   the product it replaces was stored by another call with the same ID whose
   success answer stands, so that of the products answered with 201 only the
   last written one is in the inventory. *)
C15_CheckThenInsertUnguarded ==
    \A h \in Handlers :
        /\ (hpc[h] = "done" /\ hres[h].passed) => hres[h].status = "StatusCreated"
        /\ Created(h) =>
              /\ hreq[h][1].ID \in DOMAIN ginv
              /\ hres[h].lost # NilProduct =>
                    \E g \in Handlers \ {h} :
                        /\ Created(g)
                        /\ <<hreq[g][1]>> = hres[h].lost
                        /\ hreq[g][1].ID = hreq[h][1].ID
              /\ ginv[hreq[h][1].ID] # hreq[h][1] =>
                    \E g \in Handlers \ {h} :
                        Created(g) /\ hres[g].lost = hreq[h]

(* Two concurrent createProduct calls with the same ID and different
   products were both answered 201, and the inventory holds only the second
   writer's product. *)
C15_Witness ==
    \E h, g \in Handlers :
        /\ h # g
        /\ Created(h) /\ Created(g)
        /\ hreq[h][1].ID = hreq[g][1].ID
        /\ hreq[h][1] # hreq[g][1]
        /\ hres[g].lost = hreq[h]
        /\ ginv[hreq[h][1].ID] = hreq[g][1]

----------------------------------------------------------------------------
(* Properties of the persistent HTTP server, checked under SpecPersistent *)

Published == Len(events) - hcall.nev

(* What the handlers do publish: an event only at the end of an update or
   delete that found the id in the inventory and whose database write and
   publish both succeeded, and then exactly one, for the request's id. *)
PublishOnlyAfterWrites ==
    /\ Published \in {0, 1}
    /\ Published = 1 =>
          /\ hcall.op \in {"updateProduct", "deleteProduct"}
          /\ ~hcall.bad /\ ~hcall.dbFails /\ ~hcall.pubFails
          /\ events[Len(events)].product_id = hcall.id
    /\ pinv = EmptyMap

(* C16: updateProduct and deleteProduct of a product the server has stored,
   with the database write and the publish succeeding, publish exactly one
   event, with status "updated" / "deleted" and product_id = the request id;
   in every other case they publish none. *)
C16_ChangePublishesOneEvent ==
    hcall.op \in {"updateProduct", "deleteProduct"} =>
        IF hcall.known /\ ~hcall.bad /\ ~hcall.dbFails /\ ~hcall.pubFails
        THEN /\ Published = 1
             /\ events[Len(events)].product_id = hcall.id
             /\ events[Len(events)].status =
                   (IF hcall.op = "updateProduct" THEN "updated" ELSE "deleted")
        ELSE Published = 0

(* C19: a product createProduct has stored, and no deleteProduct has
   removed, is returned by getProduct of its ID with 200 and is among the
   products listProducts returns. *)
C19_CreatedIsRetrievable ==
    /\ (hcall.op = "getProduct" /\ ~hcall.bad /\ hcall.id \in DOMAIN db) =>
          /\ hcall.status = "StatusOK"
          /\ hcall.ret = <<db[hcall.id]>>
    /\ hcall.op = "listProducts" =>
          \A id \in DOMAIN db :
              \E k \in 1..Len(hcall.ret) : hcall.ret[k] = db[id]

----------------------------------------------------------------------------
(* Termination of FetchProductsConcurrently, checked under SpecFetchFair *)

SendBlocked(i) ==
    /\ upc[i] = "send"
    /\ IF ulocal[i].err # Nil
       THEN "errors" \notin closed /\ Len(errorsCh) >= ChanCap
       ELSE "results" \notin closed /\ Len(results) >= ChanCap

(* C17: no unit ever has to wait at its channel send, because each channel
   has room for len(ids) values and every unit sends one value, although the
   errors channel is never read; and under fair scheduling, with every
   FetchProductDetails call returning, the call eventually returns, for every
   ids including the empty one, whose result is empty. *)
C17_NoSendBlocksAndReturns ==
    /\ [](\A i \in Units : ~SendBlocked(i))
    /\ [](Returned /\ ids = <<>> => products = <<>>)
    /\ <>Returned

(* The call has returned although every unit failed: the errors channel is
   full and has never been read. *)
C17_Witness ==
    /\ Returned
    /\ Len(ids) = MaxBatch
    /\ Len(errorsCh) = ChanCap
    /\ \A i \in Units : upc[i] = "exit"

----------------------------------------------------------------------------
(* Lock release and progress of the storages, checked under SpecLockedFair *)

(* C18: the lock is released on every return path: whoever holds the mutex
   is still inside its call, so after a call has returned, with or without
   an error, it no longer holds it, and when all callers wait in Lock the
   mutex is free; under fair scheduling every started call returns: no
   caller is inside a call forever. *)
C18_LockReleasedAndProgress ==
    /\ [](mutex # 0 => cpc[mutex] \in {"body", "delete", "unlock"})
    /\ []((\A c \in Callers : cpc[c] = "lock") => mutex = 0)
    /\ \A c \in Callers : []<>(cpc[c] = "idle")

(* Both error return paths have been taken, a transient failure and a
   not-found, and the lock is free. *)
C18_Witness ==
    /\ mutex = 0
    /\ \E c, d \in Callers :
          /\ cpc[c] = "idle" /\ cres[c].done /\ cres[c].fail
          /\ cpc[d] = "idle" /\ cres[d].done /\ cres[d].err = ErrProductNotFound

----------------------------------------------------------------------------
(* Properties of the lookups, checked under SpecLookup *)

(* C20: the product FindProductByName and the two GetByID return is a copy
   of the stored entry: it has the entry's values, Sell, Restock and
   UpdatePrice called on it leave the container as it was, and a lookup of
   the same entry right after them returns the stored values again. *)
C20_LookupsReturnCopies ==
    /\ (lcall.op \in LookupOps /\ lcall.err = Nil) =>
          /\ Load(lptr) = Container[lcall.key]
          /\ Container = lcall.pre
          /\ (lcall.last.op \in PointerOps /\ lcall.last.key = lcall.key) =>
                <<Load(lptr)>> = lcall.last.orig
    /\ lcall.op \in PointerOps =>
          /\ Container = lcall.pre
          /\ <<Container[lcall.key]>> = lcall.orig
          /\ lcall.changed => Load(lptr) # Container[lcall.key]

(* A returned product was changed through the pointer, and the next lookup
   of the same entry has returned the stored values. *)
C20_Witness ==
    /\ lcall.op \in LookupOps /\ lcall.err = Nil
    /\ lcall.last.op \in PointerOps
    /\ lcall.last.key = lcall.key
    /\ lcall.last.changed
    /\ <<Load(lptr)>> = lcall.last.orig

----------------------------------------------------------------------------
(* Key and identity, checked under SpecKeys *)

(* C21: every entry stored under key k is a product whose ID is k, after any
   sequence of AddProduct, RemoveProduct, Save, Delete and the in-memory
   createProduct, updateProduct and deleteProduct on a container that starts
   empty; a successful updateProduct leaves under its id the entry it found
   with name, price, quantity and category taken from the request body and
   the ID kept, whatever ID the body carries. *)
C21_KeyIsProductID ==
    /\ \A k \in DOMAIN kmap : kmap[k].ID = k
    /\ (kcall.op = "updateProduct" /\ kcall.out = "StatusOK") =>
          /\ kcall.key \in DOMAIN kmap
          /\ kmap[kcall.key] =
                [kcall.body[1] EXCEPT !.ID = kcall.old[1].ID]
          /\ kmap[kcall.key].ID = kcall.key

(* An update whose body carries another ID than the path, and other values
   than the stored entry, has succeeded. *)
C21_Witness ==
    /\ kcall.op = "updateProduct" /\ kcall.out = "StatusOK"
    /\ kcall.body[1].ID # kcall.key
    /\ kmap[kcall.key] # kcall.old[1]
    /\ kmap[kcall.key].Name = kcall.body[1].Name
    /\ Cardinality(DOMAIN kmap) > 1

====
